---------------------------- MODULE Spec2Model ----------------------------
(***************************************************************************)
(* A model of telnet_client.py: the TelnetScript session driver (connect,  *)
(* disconnect, send_command, wait_for, read_until, login, execute_script,  *)
(* _check_condition) and the TelnetScriptBuilder (add_command,             *)
(* add_condition, add_login, run), together with the part of the standard  *)
(* library's telnetlib.Telnet the driver calls (write, expect, read_until, *)
(* read_very_eager, close) and a peer that answers the lines it receives.  *)
(*                                                                         *)
(* A text is a sequence of symbols.  A symbol stands for an indivisible    *)
(* run of ASCII bytes ("login:", "#", ...); encoding and decoding with     *)
(* errors='ignore' leave such text unchanged.  The symbol "$" is the       *)
(* regular-expression metacharacter of that name; every other symbol is a  *)
(* literal in a regular expression.                                        *)
(***************************************************************************)
EXTENDS Integers, Sequences, FiniteSets, TLC

\* ------------------------------------------------------------------ bounds
\* Steps a builder accumulates before run().
MaxSteps == 2
\* Chunks the peer emits on one connection.
MaxEmit == 3
\* Top-level calls a caller makes on a TelnetScript used directly.
MaxCalls == 3
\* The longest response _check_condition is given.
MaxLen == 3

NL == "\n"

\* ------------------------------------------------------------- pure helpers
SetMin(S) == CHOOSE x \in S : \A y \in S : x <= y

\* b'...'.find(pat): the lowest 0-based index at which pat occurs, or -1.
Find(pat, buf) ==
    LET S == { i \in 0..(Len(buf) - Len(pat)) :
                 SubSeq(buf, i + 1, i + Len(pat)) = pat }
    IN  IF S = {} THEN -1 ELSE SetMin(S)

\* Python's "pat in text".
Contains(pat, text) == Find(pat, text) >= 0

\* re: match the atoms pat[k..] at position p of buf; the end of the match
\* or -1.  "$" matches at the end of buf or before a final newline and
\* consumes nothing; any other symbol matches itself.
RECURSIVE MatchAt(_, _, _, _)
MatchAt(pat, k, buf, p) ==
    IF k > Len(pat) THEN p
    ELSE IF pat[k] = "$"
         THEN IF p = Len(buf) \/ (p = Len(buf) - 1 /\ buf[Len(buf)] = NL)
              THEN MatchAt(pat, k + 1, buf, p)
              ELSE -1
         ELSE IF p < Len(buf) /\ buf[p + 1] = pat[k]
              THEN MatchAt(pat, k + 1, buf, p + 1)
              ELSE -1

\* re.compile(pat).search(buf): the end of the leftmost match, or -1.
ReSearchEnd(pat, buf) ==
    LET S == { s \in 0..Len(buf) : MatchAt(pat, 1, buf, s) >= 0 }
    IN  IF S = {} THEN -1 ELSE MatchAt(pat, 1, buf, SetMin(S))

Take(buf, n) == SubSeq(buf, 1, n)
Drop(buf, n) == SubSeq(buf, n + 1, Len(buf))

\* ------------------------------------------------------------------- state
VARIABLES
    tn,        \* TelnetScript.tn: "None", "open" (a Telnet with a socket) or
               \* "closed" (a Telnet after close(): sock is None, eof is set)
    eof,       \* Telnet.eof
    cookedq,   \* Telnet.cookedq: text received and not yet returned
    sock,      \* text the peer has sent that the client has not yet received
    link,      \* the connection: "up", "fin" (the peer has closed), "rst"
               \* (reset, the error not yet reported to a socket call) or
               \* "down" (reset, reported: reads see EOF, writes fail)
    rcvd,      \* lines written on the current connection
    emitLog,   \* chunks the peer has emitted on the current connection
    wire,      \* every write, in order: [data, step]
    commands,  \* TelnetScriptBuilder.commands
    login_info,\* TelnetScriptBuilder.login_info: <<>> when the attribute is
               \* unset, else <<descriptor>>
    op,        \* the send_command / wait_for / read_until call in progress
    lg,        \* the login call in progress
    ex,        \* the execute_script call in progress
    rn,        \* the run call in progress
    user       \* the caller: its top-level call and the last call's outcome

vars == <<tn, eof, cookedq, sock, link, rcvd, emitLog, wire, commands,
          login_info, op, lg, ex, rn, user>>

conn == <<tn, eof, cookedq, sock, link, rcvd, emitLog>>
builder == <<commands, login_info>>

\* Outcomes of calls.
NoOut == [kind |-> "none", val |-> <<>>, exc |-> "none"]
Ret(v) == [kind |-> "return", val |-> v, exc |-> "none"]
Raise(e) == [kind |-> "raise", val |-> <<>>, exc |-> e]

\* how a finished call ended: "enter" (before any wait), "match", "timeout",
\* "eof" (the peer closed), "reset" (the connection broke) or "settle".
OpIdle == [fn |-> "none", phase |-> "idle", pat |-> <<>>, out |-> NoOut,
           how |-> "none"]
OpCall(f, ph, pattern) == [fn |-> f, phase |-> ph, pat |-> pattern,
                           out |-> NoOut, how |-> "none"]
OpFailed(f, pattern, o) == [fn |-> f, phase |-> "done", pat |-> pattern,
                            out |-> o, how |-> "enter"]
OpDone(o, how) == [op EXCEPT !.phase = "done", !.out = o, !.how = how]
NoArgs == [username |-> <<>>, password |-> <<>>, username_prompt |-> <<>>,
           password_prompt |-> <<>>, success_pattern |-> <<>>]
\* waited: the final wait returned; response: what it returned.
LgIdle == [pc |-> 0, args |-> NoArgs, waited |-> FALSE, response |-> <<>>,
           out |-> NoOut]
\* results: the list being built; idx: the step each entry came from; brk: the
\* step whose failed condition stopped the loop (0: none).
\* how: the way the last send_command ended.
ExIdle == [pc |-> "idle", i |-> 0, steps |-> <<>>, results |-> <<>>,
           idx |-> <<>>, brk |-> 0, how |-> "none", out |-> NoOut]
\* connected: what connect() returned; login: what login() did ("none": not
\* called, "True", "False", "raise").
RnIdle == [pc |-> "idle", connected |-> FALSE, login |-> "none"]
UserIdle == [fn |-> "none", calls |-> 0, last |-> "none", prev |-> "none",
             w0 |-> 0, out |-> NoOut, got |-> <<>>]

InitState ==
    /\ tn = "None" /\ eof = FALSE /\ cookedq = <<>> /\ sock = <<>>
    /\ link = "up" /\ rcvd = 0 /\ emitLog = <<>> /\ wire = <<>>
    /\ commands = <<>> /\ login_info = <<>>
    /\ op = OpIdle /\ lg = LgIdle /\ ex = ExIdle /\ rn = RnIdle
    /\ user = UserIdle

\* The caller: fn is its call in progress, last the call that ended last
\* (prev the one before it), out that call's outcome, w0 the number of writes
\* made when it began, got the texts send_command, wait_for and read_until
\* have returned to it on the present connection, one after the other.
Quiet == op.phase = "idle" /\ lg.pc = 0 /\ ex.pc = "idle" /\ rn.pc = "idle"

CanCall == user.fn = "none" /\ user.calls < MaxCalls /\ Quiet

Calling(f) == [user EXCEPT !.fn = f, !.calls = @ + 1, !.w0 = Len(wire)]
Returned(f, o) ==
    [user EXCEPT !.fn = "none", !.last = f, !.prev = user.last, !.out = o]
CalledAndReturned(f, o) ==
    [user EXCEPT !.calls = @ + 1, !.last = f, !.prev = user.last, !.out = o,
                 !.w0 = Len(wire)]

\* ---------------------------------------------------------------- the peer
\* The peer answers: it has emitted at most one chunk at the connection's
\* start and one for every line received since.  It is quiet when it owes
\* nothing, and a wait times out only when the peer is quiet: what the peer
\* does emit arrives within the timeout of the wait in progress.
PeerQuiet == link # "up" \/ Len(emitLog) > rcvd \/ Len(emitLog) >= MaxEmit

PeerEmit(chunk) ==
    /\ tn = "open" /\ ~PeerQuiet
    /\ sock' = sock \o chunk
    /\ emitLog' = Append(emitLog, chunk)
    /\ UNCHANGED <<tn, eof, cookedq, link, rcvd, wire, builder, op, lg, ex,
                   rn, user>>

\* The peer closes the connection: what it sent stays readable, then EOF.
PeerClose ==
    /\ tn = "open" /\ link = "up"
    /\ link' = "fin"
    /\ UNCHANGED <<tn, eof, cookedq, sock, rcvd, emitLog, wire, builder, op,
                   lg, ex, rn, user>>

\* The connection is reset.  What had arrived stays readable.  The socket
\* reports the error once, to the first send, or to the first recv that finds
\* nothing to read; after that, and at once when the peer's close had
\* already arrived, recv returns b"" and send fails with BrokenPipeError (an
\* OSError).
PeerReset ==
    /\ tn = "open" /\ link \in {"up", "fin"}
    /\ link' = IF link = "up" THEN "rst" ELSE "down"
    /\ UNCHANGED <<tn, eof, cookedq, sock, rcvd, emitLog, wire, builder, op,
                   lg, ex, rn, user>>

\* ----------------------------------------------- TelnetScript: the session
\* connect(): a new Telnet on success; on failure the exception is caught,
\* False is returned and self.tn is left as it was.
connect(ok) ==
    IF ok
    THEN /\ tn' = "open" /\ eof' = FALSE /\ cookedq' = <<>> /\ sock' = <<>>
         /\ link' = "up" /\ rcvd' = 0 /\ emitLog' = <<>>
    ELSE UNCHANGED conn

\* disconnect(): "if self.tn: self.tn.close()".  Telnet.close() drops the
\* socket and sets eof; self.tn keeps the closed object and cookedq its text.
disconnect ==
    IF tn = "None"
    THEN UNCHANGED conn
    ELSE /\ tn' = "closed" /\ eof' = TRUE
         /\ UNCHANGED <<cookedq, sock, link, rcvd, emitLog>>

\* disconnect() without its guard: None has no close().
disconnect_result_unguarded(t) ==
    IF t = "None" THEN Raise("AttributeError") ELSE Ret(<<>>)

\* What disconnect() gives its caller: None, whether the guard skipped the
\* close (t is None) or Telnet.close() ran, which raises nothing even on a
\* Telnet already closed.
disconnect_result(t) ==
    IF t = "None" THEN Ret(<<>>) ELSE Ret(<<>>)

\* The except clauses of send_command's pattern branch and of wait_for and
\* read_until: any exception of the wait is logged and "" is returned.
ExceptReturnsEmpty(o) == IF o.kind = "raise" THEN Ret(<<>>) ELSE o

\* The guard left out.
NotConnectedUnchecked(t) == FALSE

\* The guard of send_command, wait_for and read_until: "if not self.tn".
NotConnected(t) == t = "None"

\* send_command(command, expect) up to its wait: the guard, the write of
\* command + "\n", then Telnet.expect (a pattern was given) or the settle
\* delay.  "if expect:" is false for None and for "", both <<>> here.
\* Telnet.write fails with AttributeError once the Telnet is closed and with
\* OSError on a reset connection (the reset is then reported).  src and i
\* say who sends (for the log).
send_command_enter(command, expect, src, i) ==
    IF NotConnected(tn)
    THEN /\ op' = OpFailed("send_command", expect, Raise("ConnectionError"))
         /\ UNCHANGED <<conn, wire>>
    ELSE IF tn = "closed"
    THEN /\ op' = OpFailed("send_command", expect, Raise("AttributeError"))
         /\ UNCHANGED <<conn, wire>>
    ELSE IF link \in {"rst", "down"}
    THEN /\ op' = OpFailed("send_command", expect, Raise("OSError"))
         /\ link' = "down"
         /\ UNCHANGED <<tn, eof, cookedq, sock, rcvd, emitLog, wire>>
    ELSE /\ wire' = Append(wire, [data |-> command \o <<NL>>, src |-> src,
                                  step |-> i])
         /\ rcvd' = rcvd + 1
         /\ op' = OpCall("send_command",
                         IF expect # <<>> THEN "expect" ELSE "settle", expect)
         /\ UNCHANGED <<tn, eof, cookedq, sock, link, emitLog>>

\* wait_for(pattern) up to its wait, on a session whose tn is t.  On a
\* closed Telnet, expect fails in selector.register (ValueError: the socket
\* is None), which the except clause turns into "".
WaitForOp(t, pattern) ==
    IF NotConnected(t)
    THEN OpFailed("wait_for", pattern, Raise("ConnectionError"))
    ELSE IF t = "closed"
    THEN OpFailed("wait_for", pattern, ExceptReturnsEmpty(Raise("ValueError")))
    ELSE OpCall("wait_for", "expect", pattern)

wait_for_enter(pattern) ==
    /\ op' = WaitForOp(tn, pattern)
    /\ UNCHANGED <<conn, wire>>

\* read_until(pattern) up to its wait.  Telnet.read_until first looks for
\* the literal pattern in cookedq, and returns the text up to its end; only
\* then does it register the socket (ValueError on a closed Telnet).
read_until_enter(pattern) ==
    IF NotConnected(tn)
    THEN /\ op' = OpFailed("read_until", pattern, Raise("ConnectionError"))
         /\ UNCHANGED <<conn, wire>>
    ELSE IF Find(pattern, cookedq) >= 0
    THEN /\ op' = [OpCall("read_until", "done", pattern) EXCEPT
                     !.out = Ret(Take(cookedq,
                                      Find(pattern, cookedq) + Len(pattern))),
                     !.how = "match"]
         /\ cookedq' = Drop(cookedq, Find(pattern, cookedq) + Len(pattern))
         /\ UNCHANGED <<tn, eof, sock, link, rcvd, emitLog, wire>>
    ELSE IF tn = "closed"
    THEN /\ op' = OpFailed("read_until", pattern,
                           ExceptReturnsEmpty(Raise("ValueError")))
         /\ UNCHANGED <<conn, wire>>
    ELSE /\ op' = OpCall("read_until", "until", pattern)
         /\ UNCHANGED <<conn, wire>>

\* ------------------------------------------------------ Telnet.expect loop
\* expect() dropping what follows the match.
ExpectMatchDiscards ==
    /\ op.phase = "expect" /\ ~eof
    /\ ReSearchEnd(op.pat, cookedq) >= 0
    /\ op' = OpDone(Ret(Take(cookedq, ReSearchEnd(op.pat, cookedq))), "match")
    /\ cookedq' = <<>>
    /\ UNCHANGED <<tn, eof, sock, link, rcvd, emitLog, wire, builder, lg, ex,
                   rn, user>>

\* "while not self.eof:" searches cookedq for the compiled pattern first.
\* The text up to the end of the match is returned; the rest stays.
ExpectMatch ==
    /\ op.phase = "expect" /\ ~eof
    /\ ReSearchEnd(op.pat, cookedq) >= 0
    /\ op' = OpDone(Ret(Take(cookedq, ReSearchEnd(op.pat, cookedq))), "match")
    /\ cookedq' = Drop(cookedq, ReSearchEnd(op.pat, cookedq))
    /\ UNCHANGED <<tn, eof, sock, link, rcvd, emitLog, wire, builder, lg, ex,
                   rn, user>>

\* No match and the socket is readable: fill_rawq takes what has arrived.
ExpectFill ==
    /\ op.phase = "expect" /\ ~eof
    /\ ReSearchEnd(op.pat, cookedq) < 0
    /\ sock # <<>>
    /\ cookedq' = cookedq \o sock
    /\ sock' = <<>>
    /\ UNCHANGED <<tn, eof, link, rcvd, emitLog, wire, builder, op, lg, ex,
                   rn, user>>

\* No match, nothing left to read and the peer has closed (or the reset has
\* been reported): recv returns b"" and eof is set.
ExpectEofSeen ==
    /\ op.phase = "expect" /\ ~eof
    /\ ReSearchEnd(op.pat, cookedq) < 0
    /\ sock = <<>> /\ link \in {"fin", "down"}
    /\ eof' = TRUE
    /\ UNCHANGED <<tn, cookedq, sock, link, rcvd, emitLog, wire, builder, op,
                   lg, ex, rn, user>>

\* No match, nothing left to read and the connection was reset: recv raises
\* ConnectionResetError (an OSError) out of expect, once; cookedq keeps what
\* was read.
ExpectReset ==
    /\ op.phase = "expect" /\ ~eof
    /\ ReSearchEnd(op.pat, cookedq) < 0
    /\ sock = <<>> /\ link = "rst"
    /\ op' = OpDone(ExceptReturnsEmpty(Raise("OSError")), "reset")
    /\ link' = "down"
    /\ UNCHANGED <<tn, eof, cookedq, sock, rcvd, emitLog, wire, builder, lg,
                   ex, rn, user>>

\* expect() called without a timeout: it waits until a match or the stream's
\* end.
ExpectNoTimeout ==
    /\ FALSE
    /\ UNCHANGED vars

\* No match, nothing arrives and the timeout passes: expect leaves the loop
\* and returns (-1, None, read_very_lazy()), the text accumulated so far.
ExpectTimeout ==
    /\ op.phase = "expect" /\ ~eof
    /\ ReSearchEnd(op.pat, cookedq) < 0
    /\ sock = <<>> /\ link = "up" /\ PeerQuiet
    /\ op' = OpDone(Ret(cookedq), "timeout")
    /\ cookedq' = <<>>
    /\ UNCHANGED <<tn, eof, sock, link, rcvd, emitLog, wire, builder, lg, ex,
                   rn, user>>

\* eof: the loop is over (or never entered).  read_very_lazy returns
\* cookedq, and raises EOFError when there is none.
ExpectEof ==
    /\ op.phase = "expect" /\ eof
    /\ op' = OpDone(IF cookedq = <<>>
                    THEN ExceptReturnsEmpty(Raise("EOFError"))
                    ELSE Ret(cookedq), "eof")
    /\ cookedq' = <<>>
    /\ UNCHANGED <<tn, eof, sock, link, rcvd, emitLog, wire, builder, lg, ex,
                   rn, user>>

\* --------------------------- the settle delay and Telnet.read_very_eager
\* send_command without a pattern: after the sleep, read_very_eager takes
\* everything that has arrived ("while not self.eof and self.sock_avail()")
\* and returns all of cookedq.  On a reset connection the recv after the
\* last data raises OSError, and what was read stays in cookedq.  This
\* branch has no try: EOFError (closed, nothing to return) and OSError leave
\* send_command.
SettleRead ==
    /\ op.phase = "settle"
    /\ IF ~eof /\ link = "rst"
       THEN /\ op' = OpDone(Raise("OSError"), "reset")
            /\ cookedq' = cookedq \o sock
            /\ sock' = <<>>
            /\ link' = "down"
            /\ UNCHANGED eof
       ELSE LET buf == IF eof THEN cookedq ELSE cookedq \o sock
                e == eof \/ link \in {"fin", "down"}
            IN  /\ op' = OpDone(IF buf = <<>> /\ e
                                THEN Raise("EOFError") ELSE Ret(buf),
                                IF e THEN "eof" ELSE "settle")
                /\ cookedq' = <<>>
                /\ sock' = IF eof THEN sock ELSE <<>>
                /\ eof' = e
                /\ UNCHANGED link
    /\ UNCHANGED <<tn, rcvd, emitLog, wire, builder, lg, ex, rn, user>>

\* --------------------------------------------------- Telnet.read_until loop
\* The socket is readable: fill_rawq, then look for the literal pattern.
UntilFill ==
    /\ op.phase = "until" /\ ~eof
    /\ sock # <<>>
    /\ LET buf == cookedq \o sock
           j == Find(op.pat, buf)
       IN  IF j >= 0
           THEN /\ op' = OpDone(Ret(Take(buf, j + Len(op.pat))), "match")
                /\ cookedq' = Drop(buf, j + Len(op.pat))
           ELSE /\ cookedq' = buf
                /\ UNCHANGED op
    /\ sock' = <<>>
    /\ UNCHANGED <<tn, eof, link, rcvd, emitLog, wire, builder, lg, ex, rn,
                   user>>

UntilEofSeen ==
    /\ op.phase = "until" /\ ~eof
    /\ sock = <<>> /\ link \in {"fin", "down"}
    /\ eof' = TRUE
    /\ UNCHANGED <<tn, cookedq, sock, link, rcvd, emitLog, wire, builder, op,
                   lg, ex, rn, user>>

UntilReset ==
    /\ op.phase = "until" /\ ~eof
    /\ sock = <<>> /\ link = "rst"
    /\ op' = OpDone(ExceptReturnsEmpty(Raise("OSError")), "reset")
    /\ link' = "down"
    /\ UNCHANGED <<tn, eof, cookedq, sock, rcvd, emitLog, wire, builder, lg,
                   ex, rn, user>>

UntilTimeout ==
    /\ op.phase = "until" /\ ~eof
    /\ sock = <<>> /\ link = "up" /\ PeerQuiet
    /\ op' = OpDone(Ret(cookedq), "timeout")
    /\ cookedq' = <<>>
    /\ UNCHANGED <<tn, eof, sock, link, rcvd, emitLog, wire, builder, lg, ex,
                   rn, user>>

UntilEof ==
    /\ op.phase = "until" /\ eof
    /\ op' = OpDone(IF cookedq = <<>>
                    THEN ExceptReturnsEmpty(Raise("EOFError"))
                    ELSE Ret(cookedq), "eof")
    /\ cookedq' = <<>>
    /\ UNCHANGED <<tn, eof, sock, link, rcvd, emitLog, wire, builder, lg, ex,
                   rn, user>>

\* ------------------------------------------------------ TelnetScript.login
\* The success pattern searched for as a regular expression.
LoginResultRegex(success_pattern, response) ==
    ReSearchEnd(success_pattern, response) >= 0

\* login's result once the final wait has returned:
\* "if success_pattern in response".
LoginResult(success_pattern, response) == Contains(success_pattern, response)

\* login(**args) up to its first wait: wait_for(username_prompt).
login_enter(args) ==
    /\ wait_for_enter(args.username_prompt)
    /\ lg' = [LgIdle EXCEPT !.pc = 1, !.args = args]

\* What login's "except Exception" does with a sub-step's exception.
LoginCaught(o) == Ret(FALSE)

\* login() giving up when the username prompt was not seen.
login_step_needs_prompt ==
    /\ lg.pc \in 1..5 /\ op.phase = "done"
    /\ IF op.out.kind = "raise"
       THEN /\ lg' = [lg EXCEPT !.pc = 6, !.out = LoginCaught(op.out)]
            /\ op' = OpIdle
            /\ UNCHANGED <<conn, wire>>
       ELSE IF lg.pc = 1 /\ ~Contains(lg.args.username_prompt, op.out.val)
       THEN /\ lg' = [lg EXCEPT !.pc = 6, !.out = Ret(FALSE)]
            /\ op' = OpIdle
            /\ UNCHANGED <<conn, wire>>
       ELSE IF lg.pc = 1
       THEN /\ send_command_enter(lg.args.username, <<>>, "login", 0)
            /\ lg' = [lg EXCEPT !.pc = 2]
       ELSE IF lg.pc = 2
       THEN /\ wait_for_enter(lg.args.password_prompt)
            /\ lg' = [lg EXCEPT !.pc = 3]
       ELSE IF lg.pc = 3
       THEN /\ send_command_enter(lg.args.password, <<>>, "login", 0)
            /\ lg' = [lg EXCEPT !.pc = 4]
       ELSE IF lg.pc = 4
       THEN /\ wait_for_enter(lg.args.success_pattern)
            /\ lg' = [lg EXCEPT !.pc = 5]
       ELSE /\ lg' = [lg EXCEPT !.pc = 6, !.waited = TRUE,
                         !.response = op.out.val,
                         !.out = Ret(LoginResult(lg.args.success_pattern,
                                                 op.out.val))]
            /\ op' = OpIdle
            /\ UNCHANGED <<conn, wire>>
    /\ UNCHANGED <<builder, ex, rn, user>>

\* One sub-step of login is over (lg.pc says which of the five).  An
\* exception is caught and makes login return False; otherwise the next
\* sub-step starts, and after the fifth the response is tested.
login_step ==
    /\ lg.pc \in 1..5 /\ op.phase = "done"
    /\ IF op.out.kind = "raise"
       THEN /\ lg' = [lg EXCEPT !.pc = 6, !.out = LoginCaught(op.out)]
            /\ op' = OpIdle
            /\ UNCHANGED <<conn, wire>>
       ELSE IF lg.pc = 1
       THEN /\ send_command_enter(lg.args.username, <<>>, "login", 0)
            /\ lg' = [lg EXCEPT !.pc = 2]
       ELSE IF lg.pc = 2
       THEN /\ wait_for_enter(lg.args.password_prompt)
            /\ lg' = [lg EXCEPT !.pc = 3]
       ELSE IF lg.pc = 3
       THEN /\ send_command_enter(lg.args.password, <<>>, "login", 0)
            /\ lg' = [lg EXCEPT !.pc = 4]
       ELSE IF lg.pc = 4
       THEN /\ wait_for_enter(lg.args.success_pattern)
            /\ lg' = [lg EXCEPT !.pc = 5]
       ELSE /\ lg' = [lg EXCEPT !.pc = 6, !.waited = TRUE,
                         !.response = op.out.val,
                         !.out = Ret(LoginResult(lg.args.success_pattern,
                                                 op.out.val))]
            /\ op' = OpIdle
            /\ UNCHANGED <<conn, wire>>
    /\ UNCHANGED <<builder, ex, rn, user>>

\* --------------------------------------------- TelnetScript.execute_script
\* _check_condition(response, condition).
\* _check_condition with re.match in place of re.search.
check_condition_anchored(response, condition) ==
    IF condition.type = "contains" THEN Contains(condition.pattern, response)
    ELSE IF condition.type = "regex"
    THEN MatchAt(condition.pattern, 1, response, 0) >= 0
    ELSE IF condition.type = "not_contains"
    THEN ~Contains(condition.pattern, response)
    ELSE TRUE

check_condition(response, condition) ==
    IF condition.type = "contains" THEN Contains(condition.pattern, response)
    ELSE IF condition.type = "regex"
    THEN ReSearchEnd(condition.pattern, response) >= 0
    ELSE IF condition.type = "not_contains"
    THEN ~Contains(condition.pattern, response)
    ELSE TRUE

\* A step is the dict add_command makes: command, expect (<<>>: None),
\* delay, and, once add_condition has run, condition (<<>>: no such key,
\* else <<[type, pattern]>>) and stop_on_fail.  The timeout key only bounds
\* how long a wait may last and has no counterpart here.
HasCondition(step) == step.condition # <<>>

\* "if not self._check_condition(response, condition)", for a step that has
\* the key.
ConditionFails(step, response) ==
    HasCondition(step) /\ ~check_condition(response, step.condition[1])

\* The loop never breaking.
BreaksNever(step, response) == FALSE

\* Whether the loop breaks after this step's response.
Breaks(step, response) == ConditionFails(step, response) /\ step.stop_on_fail

\* The loop's next iteration, or the return of results after the last one.
ExNext(e) ==
    IF e.i >= Len(e.steps)
    THEN [e EXCEPT !.pc = "done", !.out = Ret(e.results)]
    ELSE [e EXCEPT !.pc = "loop", !.i = e.i + 1]

\* execute_script(script_commands): results = [] and the loop begins.
exec_enter(steps) ==
    ex' = ExNext([ExIdle EXCEPT !.steps = steps])

\* The body of one iteration after its delay: "if cmd:" sends the command
\* and waits for its response; an empty command does nothing more.
exec_command ==
    LET step == ex.steps[ex.i]
    IN  IF step.command # <<>>
        THEN /\ send_command_enter(step.command, step.expect, "step", ex.i)
             /\ ex' = [ex EXCEPT !.pc = "cmd"]
        ELSE /\ ex' = ExNext(ex)
             /\ UNCHANGED <<conn, wire, op>>

\* The top of an iteration: "if delay > 0: time.sleep(delay)".
exec_step ==
    /\ ex.pc = "loop"
    /\ IF ex.steps[ex.i].delay > 0
       THEN /\ ex' = [ex EXCEPT !.pc = "sleep"]
            /\ UNCHANGED <<conn, wire, op>>
       ELSE exec_command
    /\ UNCHANGED <<builder, lg, rn, user>>

\* The sleep is over.
exec_wake ==
    /\ ex.pc = "sleep"
    /\ exec_command
    /\ UNCHANGED <<builder, lg, rn, user>>

\* send_command is over.  Its exception leaves execute_script (there is no
\* try); its value is appended, the condition is checked, and the loop
\* breaks or goes on.
exec_return ==
    /\ ex.pc = "cmd" /\ op.phase = "done"
    /\ LET step == ex.steps[ex.i]
           response == op.out.val
           e == [ex EXCEPT !.results = Append(@, response),
                           !.idx = Append(@, ex.i)]
       IN  ex' = IF op.out.kind = "raise"
                 THEN [ex EXCEPT !.pc = "done", !.how = op.how,
                                 !.out = op.out]
                 ELSE IF Breaks(step, response)
                 THEN [e EXCEPT !.pc = "done", !.brk = ex.i, !.how = op.how,
                                !.out = Ret(e.results)]
                 ELSE ExNext([e EXCEPT !.how = op.how])
    /\ op' = OpIdle
    /\ UNCHANGED <<conn, wire, builder, lg, rn, user>>

\* ------------------------------------------------------ TelnetScriptBuilder
NoCondition == <<>>

add_command(command, expect, delay) ==
    /\ commands' = Append(commands,
                     [command |-> command, expect |-> expect, delay |-> delay,
                      condition |-> NoCondition, stop_on_fail |-> FALSE])
    /\ UNCHANGED login_info

\* add_condition changes the last step, and nothing when there is none.
add_condition(condition_type, pattern, stop_on_fail) ==
    /\ commands' =
         IF commands # <<>>
         THEN [commands EXCEPT ![Len(commands)] =
                 [@ EXCEPT !.condition = <<[type |-> condition_type,
                                            pattern |-> pattern]>>,
                           !.stop_on_fail = stop_on_fail]]
         ELSE commands
    /\ UNCHANGED login_info

add_login(args) ==
    /\ login_info' = <<args>>
    /\ UNCHANGED commands

\* connect()'s result ignored.
RunAbortsNever(ok) == FALSE

\* "if not self.script.connect(): return []".
RunAborts(ok) == ~ok

\* login()'s result ignored.
LoginFailedNever(login_success) == FALSE

\* "if not login_success: return []".
LoginFailed(login_success) == ~login_success

\* run(), first part: connect; without a connection return []; then login
\* when login_info is set, else execute_script.
run_enter(ok) ==
    /\ connect(ok)
    /\ IF RunAborts(ok)
       THEN /\ rn' = [RnIdle EXCEPT !.pc = "done", !.connected = ok]
            /\ user' = CalledAndReturned("run", Ret(<<>>))
            /\ UNCHANGED <<op, lg, ex>>
       ELSE /\ user' = Calling("run")
            /\ IF login_info # <<>>
               THEN /\ rn' = [RnIdle EXCEPT !.pc = "login", !.connected = ok]
                    \* login(**self.login_info), up to its first wait
                    /\ lg' = [LgIdle EXCEPT !.pc = 1, !.args = login_info[1]]
                    /\ op' = WaitForOp(IF ok THEN "open" ELSE tn,
                                       login_info[1].username_prompt)
                    /\ UNCHANGED ex
               ELSE /\ rn' = [RnIdle EXCEPT !.pc = "exec", !.connected = ok]
                    /\ exec_enter(commands)
                    /\ UNCHANGED <<op, lg>>
    /\ UNCHANGED <<wire, builder>>

\* run(), after login: an exception or a False leaves through the finally
\* clause (disconnect), the latter returning []; a True goes on to
\* execute_script.
run_after_login ==
    /\ rn.pc = "login" /\ lg.pc = 6
    /\ lg' = LgIdle
    /\ IF lg.out.kind = "raise"
       THEN /\ disconnect
            /\ rn' = [rn EXCEPT !.pc = "done", !.login = "raise"]
            /\ user' = Returned("run", lg.out)
            /\ UNCHANGED ex
       ELSE IF LoginFailed(lg.out.val)
       THEN /\ disconnect
            /\ rn' = [rn EXCEPT !.pc = "done",
                                !.login = IF lg.out.val THEN "True" ELSE "False"]
            /\ user' = Returned("run", Ret(<<>>))
            /\ UNCHANGED ex
       ELSE /\ rn' = [rn EXCEPT !.pc = "exec",
                                !.login = IF lg.out.val THEN "True" ELSE "False"]
            /\ exec_enter(commands)
            /\ UNCHANGED <<conn, user>>
    /\ UNCHANGED <<wire, builder, op>>

\* run() with the disconnect after the try block instead of in a finally
\* clause: an exception skips it.
run_after_exec_no_finally ==
    /\ rn.pc = "exec" /\ ex.pc = "done"
    /\ IF ex.out.kind = "raise" THEN UNCHANGED conn ELSE disconnect
    /\ rn' = [rn EXCEPT !.pc = "done"]
    /\ user' = Returned("run", ex.out)
    /\ UNCHANGED <<wire, builder, op, lg, ex>>

\* run(), after execute_script: the finally clause disconnects, then the
\* results are returned or the exception goes on to the caller.
run_after_exec ==
    /\ rn.pc = "exec" /\ ex.pc = "done"
    /\ disconnect
    /\ rn' = [rn EXCEPT !.pc = "done"]
    /\ user' = Returned("run", ex.out)
    /\ UNCHANGED <<wire, builder, op, lg, ex>>

\* --------------------------------------- a caller using TelnetScript directly
ApiPatterns == {<<"#">>, <<"$">>}
ApiCommands == {<<"show">>}
ApiChunks == {<<>>, <<"x">>, <<"#">>, <<"x", "#", "x">>}

UserConnect(ok) ==
    /\ CanCall
    /\ connect(ok)
    /\ user' = [CalledAndReturned("connect", Ret(ok)) EXCEPT
                   !.got = IF ok THEN <<>> ELSE @]
    /\ UNCHANGED <<wire, builder, op, lg, ex, rn>>

UserDisconnect ==
    /\ CanCall
    /\ disconnect
    /\ user' = CalledAndReturned("disconnect", disconnect_result(tn))
    /\ UNCHANGED <<wire, builder, op, lg, ex, rn>>

UserSendCommand(command, expect) ==
    /\ CanCall
    /\ send_command_enter(command, expect, "user", 0)
    /\ user' = Calling("send_command")
    /\ UNCHANGED <<builder, lg, ex, rn>>

UserWaitFor(pattern) ==
    /\ CanCall
    /\ wait_for_enter(pattern)
    /\ user' = Calling("wait_for")
    /\ UNCHANGED <<builder, lg, ex, rn>>

UserReadUntil(pattern) ==
    /\ CanCall
    /\ read_until_enter(pattern)
    /\ user' = Calling("read_until")
    /\ UNCHANGED <<builder, lg, ex, rn>>

\* The call made directly by the caller is over: its value or its exception
\* reaches the caller.
UserOpReturn ==
    /\ user.fn \in {"send_command", "wait_for", "read_until"}
    /\ op.phase = "done"
    /\ user' = [Returned(user.fn, op.out) EXCEPT
                   !.got = IF op.out.kind = "return"
                           THEN @ \o op.out.val ELSE @]
    /\ op' = OpIdle
    /\ UNCHANGED <<conn, wire, builder, lg, ex, rn>>

Telnet ==
    \/ ExpectMatch \/ ExpectFill \/ ExpectEofSeen \/ ExpectReset
    \/ ExpectTimeout \/ ExpectEof \/ SettleRead

TelnetUntil ==
    \/ UntilFill \/ UntilEofSeen \/ UntilReset \/ UntilTimeout \/ UntilEof

NextApi ==
    \/ \E ok \in BOOLEAN : UserConnect(ok)
    \/ UserDisconnect
    \/ \E c \in ApiCommands, e \in ApiPatterns \cup {<<>>} : UserSendCommand(c, e)
    \/ \E p \in ApiPatterns \cup {<<>>} : UserWaitFor(p)
    \/ \E p \in ApiPatterns : UserReadUntil(p)
    \/ UserOpReturn
    \/ Telnet
    \/ TelnetUntil
    \/ \E c \in ApiChunks : PeerEmit(c)
    \/ PeerClose
    \/ PeerReset

SpecApi == InitState /\ [][NextApi]_vars


\* ------------------------------------------- a caller of login, directly
DefaultLogin == [username |-> <<"admin">>, password |-> <<"secret">>,
                 username_prompt |-> <<"login:">>,
                 password_prompt |-> <<"Password:">>,
                 success_pattern |-> <<"$">>]
LoginArgs == { [DefaultLogin EXCEPT !.success_pattern = sp] :
                 sp \in {<<"$">>, <<"#">>} }
LoginChunks == {<<>>, <<"login:">>, <<"Password:">>, <<"$">>, <<"#">>,
                <<"Denied">>}

UserLogin(args) ==
    /\ CanCall
    /\ login_enter(args)
    /\ user' = Calling("login")
    /\ UNCHANGED <<builder, ex, rn>>

UserLoginReturn ==
    /\ user.fn = "login" /\ lg.pc = 6
    /\ user' = Returned("login", lg.out)
    /\ lg' = LgIdle
    /\ UNCHANGED <<conn, wire, builder, op, ex, rn>>

NextLogin ==
    \/ \E ok \in BOOLEAN : UserConnect(ok)
    \/ UserDisconnect
    \/ \E a \in LoginArgs : UserLogin(a)
    \/ login_step
    \/ UserLoginReturn
    \/ Telnet
    \/ \E c \in LoginChunks : PeerEmit(c)
    \/ PeerClose
    \/ PeerReset

SpecLogin == InitState /\ [][NextLogin]_vars



\* ------------------------------------------------ _check_condition's inputs
\* _check_condition is a function of its arguments alone.  Its inputs are
\* drawn at the one place it is called from: run() is inside execute_script,
\* whose only step has a condition, and send_command("show") has just
\* returned the response the peer sent.
CondSymbols == {"x", "#", "$", NL}
CondResponses == UNION { [1..n -> CondSymbols] : n \in 0..MaxLen }
CondTypes == {"contains", "regex", "not_contains", "equals"}
CondPatterns == {<<>>, <<"#">>, <<"x", "#">>, <<"$">>, <<"#", "$">>}

InitCond ==
    \E response \in CondResponses, t \in CondTypes, p \in CondPatterns,
       fatal \in BOOLEAN :
      LET step == [command |-> <<"show">>, expect |-> <<>>, delay |-> 0,
                   condition |-> <<[type |-> t, pattern |-> p]>>,
                   stop_on_fail |-> fatal]
      IN  /\ tn = "open" /\ eof = FALSE /\ cookedq = <<>> /\ sock = <<>>
          /\ link = "up" /\ rcvd = 1 /\ emitLog = <<response>>
          /\ wire = <<[data |-> <<"show", NL>>, src |-> "step", step |-> 1]>>
          /\ commands = <<step>> /\ login_info = <<>>
          /\ op = [fn |-> "send_command", phase |-> "done", pat |-> <<>>,
                   out |-> Ret(response), how |-> "settle"]
          /\ lg = LgIdle
          /\ ex = [ExIdle EXCEPT !.pc = "cmd", !.i = 1, !.steps = <<step>>]
          /\ rn = [RnIdle EXCEPT !.pc = "exec", !.connected = TRUE]
          /\ user = [UserIdle EXCEPT !.fn = "run", !.calls = 1]

NextCond ==
    \/ exec_return
    \/ run_after_exec

SpecCond == InitCond /\ [][NextCond]_vars

\* -------------------------------------------------- a caller of the builder
\* What the caller passes to add_command, add_condition and add_login.
StepInputs == { <<<<"show">>, <<"#">>, 0>>, <<<<"show">>, <<>>, 0>>,
                <<<<>>, <<"#">>, 1>> }
ConditionInputs == { <<"contains", <<"#">>, TRUE>>,
                     <<"contains", <<"#">>, FALSE>> }
RunLogins == { [DefaultLogin EXCEPT !.success_pattern = <<"#">>] }
RunChunks == {<<>>, <<"x">>, <<"#">>}

Building == user.fn = "none" /\ user.last = "none" /\ Quiet

UserAddCommand(command, expect, delay) ==
    /\ Building /\ Len(commands) < MaxSteps
    /\ add_command(command, expect, delay)
    /\ UNCHANGED <<conn, wire, op, lg, ex, rn, user>>

UserAddCondition(condition_type, pattern, stop_on_fail) ==
    /\ Building
    /\ add_condition(condition_type, pattern, stop_on_fail)
    /\ UNCHANGED <<conn, wire, op, lg, ex, rn, user>>

UserAddLogin(args) ==
    /\ Building
    /\ add_login(args)
    /\ UNCHANGED <<conn, wire, op, lg, ex, rn, user>>

UserRun(ok) ==
    /\ Building
    /\ run_enter(ok)

Next ==
    \/ \E in \in StepInputs : UserAddCommand(in[1], in[2], in[3])
    \/ \E in \in ConditionInputs : UserAddCondition(in[1], in[2], in[3])
    \/ \E a \in RunLogins : UserAddLogin(a)
    \/ \E ok \in BOOLEAN : UserRun(ok)
    \/ login_step
    \/ run_after_login
    \/ exec_step
    \/ exec_wake
    \/ exec_return
    \/ run_after_exec
    \/ Telnet
    \/ \E c \in RunChunks : PeerEmit(c)
    \/ PeerClose
    \/ PeerReset

Spec == InitState /\ [][Next]_vars

\* run() under fair scheduling.  The interpreter runs the one thread of the
\* program whenever it can take a step: a ready socket is read, a timeout or
\* a sleep that has elapsed wakes it.  A peer that owes an answer gives it
\* (an empty chunk: it stays silent until the wait's timeout).
Program ==
    \/ login_step \/ run_after_login
    \/ exec_step \/ exec_wake \/ exec_return
    \/ run_after_exec
    \/ Telnet

\* The scripts and answers run() is followed over: a step with a pattern
\* wait, a step with a settle read after a delay, a fatal condition, a login.
LiveSteps == { <<<<"show">>, <<"#">>, 0>>, <<<<"show">>, <<>>, 1>> }
LiveConditions == { <<"contains", <<"#">>, TRUE>> }
LiveChunks == {<<>>, <<"#">>}

PeerAnswers == \E c \in LiveChunks : PeerEmit(c)

NextLive ==
    \/ \E in \in LiveSteps : UserAddCommand(in[1], in[2], in[3])
    \/ \E in \in LiveConditions : UserAddCondition(in[1], in[2], in[3])
    \/ \E a \in RunLogins : UserAddLogin(a)
    \/ \E ok \in BOOLEAN : UserRun(ok)
    \/ Program
    \/ PeerAnswers
    \/ PeerClose
    \/ PeerReset

Fairness == WF_vars(Program) /\ WF_vars(PeerAnswers)

SpecLive == InitState /\ [][NextLive]_vars /\ Fairness


\* ================================================================== claims
StepWrites == { w \in 1..Len(wire) : wire[w].src = "step" }
ApiOps == {"send_command", "wait_for", "read_until"}

\* The steps among the first k that have a command, in order.
WithCommand(steps, k) ==
    LET F[n \in 0..k] ==
          IF n = 0 THEN <<>>
          ELSE IF steps[n].command # <<>> THEN Append(F[n - 1], n)
               ELSE F[n - 1]
    IN  F[k]

\* C1 (Spec): whenever run() has exited after a successful connect() - by
\* its normal return, by the return of [] after a failed login, after a
\* fatal condition, or by an exception - the connection has been closed by
\* disconnect().
C1_DisconnectOnEveryExit ==
    (rn.pc = "done" /\ rn.connected) => tn = "closed"

\* run() has exited by an exception out of execute_script, and the
\* connection is closed.
C1_Witness ==
    /\ rn.pc = "done" /\ rn.connected
    /\ user.last = "run" /\ user.out.kind = "raise"
    /\ tn = "closed"

\* C2 (Spec): with a login descriptor set, a step's command is written only
\* after login() has returned True; and when login() returned False, run()
\* has returned [] and no step's command was written.
C2_NoStepBeforeLogin ==
    login_info # <<>> =>
      /\ StepWrites # {} => rn.login = "True"
      /\ (rn.pc = "done" /\ rn.login = "False") =>
            (user.last = "run" /\ user.out = Ret(<<>>) /\ StepWrites = {})

\* A login descriptor is set, login() returned True and a step's command
\* has been written.
C2_Witness ==
    login_info # <<>> /\ rn.login = "True" /\ StepWrites # {}

\* C3 (Spec): once a step with a command has a response that fails its
\* condition and stop_on_fail is true, that response is the last entry of
\* the results, the results are in order those of the steps with a command
\* up to and including that step, execute_script has returned exactly them,
\* and no later step has written anything.
C3_FatalShortCircuit ==
    \A j \in 1..Len(ex.results) :
      LET k == ex.idx[j]
          step == ex.steps[k]
      IN  ( /\ step.command # <<>>
            /\ step.condition # <<>>
            /\ ~check_condition(ex.results[j], step.condition[1])
            /\ step.stop_on_fail )
          => /\ j = Len(ex.results)
             /\ ex.idx = WithCommand(ex.steps, k)
             /\ ex.pc = "done" /\ ex.out = Ret(ex.results)
             /\ \A w \in StepWrites : wire[w].step <= k
             /\ (rn.pc = "done" => user.out = Ret(ex.results))

\* The first of two steps stopped the script, and the second has a command.
C3_Witness ==
    /\ ex.pc = "done" /\ ex.brk = 1 /\ Len(ex.results) = 1
    /\ Len(ex.steps) = 2 /\ ex.steps[2].command # <<>>

\* The second of two steps stopped the script and both results are kept.
C3_WitnessKept ==
    ex.pc = "done" /\ ex.brk = 2 /\ Len(ex.results) = 2

\* C4 (SpecLogin): Scenario A.  The peer emits "login:", "Password:" once
\* the username line is written and "$" once the password line is written;
\* login("admin", "secret") on the new connection returns True.
ScenarioA == << <<"login:">>, <<"Password:">>, <<"$">> >>

C4_ScenarioALoginTrue ==
    ( /\ lg.pc = 6 /\ lg.args = DefaultLogin
      /\ user.calls = 2 /\ link = "up"
      /\ emitLog = ScenarioA )
    => lg.out = Ret(TRUE)

\* What the code does instead: with the success pattern "$", login never
\* returns True.
C4_DollarNeverSucceeds ==
    (lg.pc = 6 /\ lg.args.success_pattern = <<"$">>) => lg.out = Ret(FALSE)

\* C5 (SpecApi): send_command with an expected pattern that has not appeared
\* when the wait times out returns the empty string.
C5_EmptyOnTimeout ==
    ( /\ op.phase = "done" /\ op.fn = "send_command"
      /\ op.pat # <<>> /\ op.how = "timeout" )
    => op.out = Ret(<<>>)

\* C6 (SpecApi): while the session has never been opened, nothing has been
\* written, and send_command, wait_for and read_until end by raising
\* ConnectionError, writing nothing.
C6_NotConnectedRaises ==
    tn = "None" =>
      /\ wire = <<>>
      /\ op.phase = "done" => op.out = Raise("ConnectionError")
      /\ (user.fn = "none" /\ user.last \in ApiOps) =>
            (user.out = Raise("ConnectionError") /\ Len(wire) = user.w0)

\* send_command was called, as the second call, on a session never opened
\* and raised ConnectionError.
C6_Witness ==
    /\ tn = "None" /\ user.fn = "none" /\ user.calls = 2
    /\ user.last = "send_command" /\ user.out.exc = "ConnectionError"

\* C7 (SpecApi): on a session closed by disconnect(), send_command, wait_for
\* and read_until end by an exception, writing nothing.
C7_ClosedSessionRaises ==
    (tn = "closed" /\ user.fn = "none" /\ user.last \in ApiOps) =>
       (user.out.kind = "raise" /\ Len(wire) = user.w0)

\* C8 (Spec): when the peer closes or the connection breaks while a step's
\* response is being obtained, execute_script still returns its results.
C8_StreamFaultContained ==
    (ex.pc = "done" /\ ex.how \in {"eof", "reset"}) => ex.out.kind = "return"

\* C9 (SpecLogin): login() always returns, never raises, and returns True
\* exactly when its final wait returned a text that contains the success
\* pattern.
C9_LoginResult ==
    /\ lg.pc = 6 =>
         /\ lg.out.kind = "return"
         /\ lg.out.val <=>
              (lg.waited /\ Contains(lg.args.success_pattern, lg.response))
    /\ (user.fn = "none" /\ user.last = "login") => user.out.kind = "return"

\* login() returned True.
C9_Witness ==
    lg.pc = 6 /\ lg.waited /\ lg.out = Ret(TRUE)

\* login() was called on a session never opened and returned False.
C9_WitnessNotConnected ==
    lg.pc = 6 /\ tn = "None" /\ ~lg.waited /\ lg.out = Ret(FALSE)

\* C10 (Spec): when connect() fails, run() returns [] without raising,
\* without calling login() and without writing anything.
C10_ConnectFailure ==
    (rn.pc = "done" /\ ~rn.connected) =>
       /\ user.last = "run" /\ user.out = Ret(<<>>)
       /\ rn.login = "none" /\ lg = LgIdle /\ ex = ExIdle
       /\ wire = <<>> /\ tn = "None"

\* connect() failed in a run() that had a login descriptor and steps.
C10_Witness ==
    /\ rn.pc = "done" /\ ~rn.connected
    /\ login_info # <<>> /\ commands # <<>>


\* C11 (SpecApi): every call of disconnect() returns without raising and
\* leaves the session not open; on a session already closed or never opened
\* it changes nothing.
C11_DisconnectIdempotent ==
    [][ ( /\ user.fn = "none" /\ user'.fn = "none"
          /\ user'.calls = user.calls + 1 /\ user'.last = "disconnect" )
        => /\ user'.out = Ret(<<>>)
           /\ tn' # "open"
           /\ tn # "open" => conn' = conn ]_vars

\* disconnect() was called twice in a row on a session that had been opened.
C11_Witness ==
    /\ user.fn = "none" /\ user.last = "disconnect"
    /\ user.prev = "disconnect" /\ tn = "closed"
    /\ user.out.kind = "return"

\* disconnect() was called on a session never opened.
C11_WitnessNeverOpened ==
    /\ user.fn = "none" /\ user.last = "disconnect" /\ tn = "None"
    /\ user.out.kind = "return"

\* The steps the statement counts: a non-empty command, or an explicit wait
\* (an expected pattern or a delay).
CommandOrWait(steps) ==
    { k \in 1..Len(steps) :
        \/ steps[k].command # <<>>
        \/ steps[k].expect # <<>>
        \/ steps[k].delay > 0 }

\* C12 (Spec): when execute_script returns and no fatal condition stopped it,
\* its results are those of the steps executed, in list order, and there are
\* as many of them as steps with a non-empty command or an explicit wait.
C12_OrderAndCount ==
    (ex.pc = "done" /\ ex.out.kind = "return" /\ ex.brk = 0)
    => /\ \A a, b \in 1..Len(ex.idx) : a < b => ex.idx[a] < ex.idx[b]
       /\ Len(ex.results) = Cardinality(CommandOrWait(ex.steps))

\* "pattern is a substring of response".
IsSubstring(pattern, response) ==
    \E i \in 0..(Len(response) - Len(pattern)) :
        \A j \in 1..Len(pattern) : response[i + j] = pattern[j]

\* "response contains a match of the regular expression pattern": some start
\* k and positions pos[0..n] with pos[0] = k, where every atom other than "$"
\* is the next symbol of response and "$" stands at the end of response or
\* before its final newline.
HasRegexMatch(pattern, response) ==
    \E pos \in [0..Len(pattern) -> 0..Len(response)] :
        \A j \in 1..Len(pattern) :
            IF pattern[j] = "$"
            THEN /\ pos[j] = pos[j - 1]
                 /\ \/ pos[j] = Len(response)
                    \/ pos[j] = Len(response) - 1 /\ response[Len(response)] = NL
            ELSE /\ pos[j] = pos[j - 1] + 1
                 /\ response[pos[j]] = pattern[j]

\* What the statement says _check_condition is equivalent to.
ConditionHolds(response, condition) ==
    CASE condition.type = "contains" -> IsSubstring(condition.pattern, response)
      [] condition.type = "not_contains" ->
             ~IsSubstring(condition.pattern, response)
      [] condition.type = "regex" -> HasRegexMatch(condition.pattern, response)
      [] OTHER -> TRUE

\* C13 (SpecCond): _check_condition(response, condition) is true exactly when
\* 'contains' finds the pattern as a substring, 'not_contains' does not,
\* 'regex' finds a match anywhere in the response, and always for any other
\* type: the loop of a one-step script with a fatal condition breaks exactly
\* when that is false.
C13_CheckCondition ==
    ( /\ ex.pc = "done" /\ Len(ex.steps) = 1 /\ Len(ex.results) = 1
      /\ HasCondition(ex.steps[1]) /\ ex.steps[1].stop_on_fail )
    => ((ex.brk = 0) <=> ConditionHolds(ex.results[1], ex.steps[1].condition[1]))

\* A regex condition held by a match that does not begin the response.
C13_Witness ==
    /\ ex.pc = "done" /\ Len(ex.steps) = 1 /\ ex.steps[1].stop_on_fail
    /\ ex.steps[1].condition = <<[type |-> "regex", pattern |-> <<"#", "$">>]>>
    /\ ex.results = << <<"x", "#", NL>> >>
    /\ ex.brk = 0

\* A not_contains condition failed by a response that has the pattern.
C13_WitnessFails ==
    /\ ex.pc = "done" /\ Len(ex.steps) = 1 /\ ex.steps[1].stop_on_fail
    /\ ex.steps[1].condition =
         <<[type |-> "not_contains", pattern |-> <<"x", "#">>]>>
    /\ ex.results = << <<"$", "x", "#">> >>
    /\ ex.brk = 1

\* C14 (Spec): every executed step with an empty command and an expected
\* pattern or a delay has an entry of its own in the results execute_script
\* returns.
C14_WaitStepContributes ==
    (ex.pc = "done" /\ ex.out.kind = "return")
    => \A k \in 1..Len(ex.steps) :
         ( /\ ex.steps[k].command = <<>>
           /\ ex.steps[k].expect # <<>> \/ ex.steps[k].delay > 0
           /\ ex.brk = 0 \/ k <= ex.brk )
         => \E a \in 1..Len(ex.idx) : ex.idx[a] = k

\* Everything the peer has sent, in order.
RECURSIVE Concat(_)
Concat(chunks) ==
    IF chunks = <<>> THEN <<>> ELSE Head(chunks) \o Concat(Tail(chunks))

Infixes(s) == { SubSeq(s, a, b) : a \in 1..(Len(s) + 1), b \in 0..Len(s) }

\* The texts step k of the script can have obtained: its response when it
\* has one, else any part of what the peer sent.
TextsObtained(k) ==
    IF \E a \in 1..Len(ex.idx) : ex.idx[a] = k
    THEN { ex.results[a] : a \in { b \in 1..Len(ex.idx) : ex.idx[b] = k } }
    ELSE Infixes(Concat(emitLog))

\* C15 (Spec): when execute_script returns, no step wrote after an executed
\* step, with or without a command, whose condition fails against the text
\* obtained for it and whose stop_on_fail is true.
C15_ConditionAlwaysEvaluated ==
    (ex.pc = "done" /\ ex.out.kind = "return")
    => \A k \in 1..Len(ex.steps) :
         ( /\ HasCondition(ex.steps[k]) /\ ex.steps[k].stop_on_fail
           /\ ex.brk = 0 \/ k <= ex.brk
           /\ \A text \in TextsObtained(k) :
                  ~check_condition(text, ex.steps[k].condition[1]) )
         => \A w \in 1..Len(wire) :
                ~(wire[w].src = "step" /\ wire[w].step > k)

\* text ends with the literal pattern.
EndsWith(text, pattern) ==
    /\ Len(text) >= Len(pattern)
    /\ SubSeq(text, Len(text) - Len(pattern) + 1, Len(text)) = pattern

\* C16 (SpecApi): a pattern wait (wait_for, or send_command with an expected
\* pattern) that reports a match returns text that contains the literal
\* pattern and ends at that occurrence.
C16_LiteralMatch ==
    ( /\ op.phase = "done" /\ op.fn \in {"wait_for", "send_command"}
      /\ op.how = "match" )
    => /\ op.out.kind = "return"
       /\ Contains(op.pat, op.out.val)
       /\ EndsWith(op.out.val, op.pat)

\* C17 (SpecApi): a pattern wait given the empty pattern on an open session
\* never ends as a match: it ends by its timeout or by the stream's end.
C17_EmptyPatternNeverMatches ==
    ( /\ op.phase = "done" /\ op.fn = "wait_for" /\ op.pat = <<>>
      /\ op.how # "enter" )
    => op.how \in {"timeout", "eof", "reset"}

\* C18 (SpecLive): every run() that has begun returns, and the connection is
\* closed when it does.
C18_RunTerminates ==
    (user.fn = "run") ~> (user.fn = "none" /\ user.last = "run" /\ tn # "open")

\* run() returned after a pattern wait of a step ended by its timeout.
C18_Witness ==
    /\ user.fn = "none" /\ user.last = "run" /\ tn = "closed"
    /\ Len(ex.results) >= 1 /\ ex.how = "timeout"

\* The lines login() has written since it was called.
LoginWrites ==
    [ i \in 1..(Len(wire) - user.w0) |-> wire[user.w0 + i].data ]

\* The username line, then the password line.
TwoLines(args) == << args.username \o <<NL>>, args.password \o <<NL>> >>

IsPrefix(s, t) == Len(s) <= Len(t) /\ SubSeq(t, 1, Len(s)) = s

\* C19 as stated (SpecLogin): on a connected session login() always writes
\* exactly the username line and then the password line, and its result is
\* that of the final success-pattern wait.
C19_AlwaysTwoLines ==
    (lg.pc = 6 /\ tn = "open")
    => /\ LoginWrites = TwoLines(lg.args)
       /\ lg.waited
       /\ lg.out.val <=> Contains(lg.args.success_pattern, lg.response)

\* C19 (SpecLogin): on a connected session, whatever the prompt waits
\* returned, login() writes the username line and then the password line and
\* its result is that of the final success-pattern wait, unless the stream
\* fails under a send_command: then login() has written the username line,
\* both lines or nothing, and returns False.
C19_TwoLinesUnlessStreamFails ==
    (lg.pc = 6 /\ tn = "open")
    => /\ lg.out.kind = "return"
       /\ lg.waited =>
            /\ LoginWrites = TwoLines(lg.args)
            /\ lg.out.val <=> Contains(lg.args.success_pattern, lg.response)
       /\ ~lg.waited =>
            /\ link # "up"
            /\ IsPrefix(LoginWrites, TwoLines(lg.args))
            /\ lg.out.val = FALSE

\* login() returned True on a session whose peer never sent either prompt.
C19_Witness ==
    /\ lg.pc = 6 /\ tn = "open" /\ lg.waited /\ lg.out = Ret(TRUE)
    /\ LoginWrites = TwoLines(lg.args)
    /\ \A i \in 1..Len(emitLog) :
           emitLog[i] \notin {<<"login:">>, <<"Password:">>}

\* The peer closed after the username line: login() wrote one line.
C19_WitnessStreamClosed ==
    /\ lg.pc = 6 /\ tn = "open" /\ ~lg.waited /\ link = "fin"
    /\ Len(LoginWrites) = 1

\* The texts the calls on this connection have returned, one after the
\* other, the one just ended included.
ReturnedText ==
    user.got \o (IF op.phase = "done" /\ op.out.kind = "return"
                 THEN op.out.val ELSE <<>>)

\* C20 (SpecApi): on one connection the texts returned by send_command,
\* wait_for and read_until, followed by what is buffered and what has not
\* been read yet, are exactly what the peer sent, in order: nothing is
\* returned twice, reordered or dropped, and what follows a match is kept.
\* A send_command without a pattern that returns leaves nothing buffered.
C20_StreamAccounting ==
    /\ tn # "None" => ReturnedText \o cookedq \o sock = Concat(emitLog)
    /\ ( /\ op.phase = "done" /\ op.fn = "send_command" /\ op.pat = <<>>
         /\ op.out.kind = "return" )
       => cookedq = <<>>

\* wait_for matched inside a chunk; the text after the match was returned by
\* the send_command that followed.
C20_Witness ==
    /\ user.fn = "none" /\ user.prev = "wait_for"
    /\ user.last = "send_command" /\ user.out = Ret(<<"x">>)
    /\ user.got = <<"x", "#", "x">>
    /\ cookedq = <<>>

=============================================================================
